---- MODULE Spec2Model ----
(***************************************************************************)
(* Request-governance layer of the Yahoo Finance MCP server (server.py):   *)
(* sliding-window global limiter, per-ticker throttle, TTL cache, retry    *)
(* executor with backoff, and the nine tool handlers that compose them on  *)
(* a single-threaded cooperative event loop.                               *)
(*                                                                         *)
(* Time is the value of time.monotonic() in whole seconds.  Backoff        *)
(* delays are computed in hundredths of a second.                          *)
(***************************************************************************)
EXTENDS Integers, Sequences, FiniteSets, TLC

(* ----------------------------------------------------------------------- *)
(* Configuration, server.py:14-21.  Each value is read from an environment *)
(* variable; the model runs a small configuration (the defaults are 60,    *)
(* 30, 2, 60, 2, 1.5 s).                                                     *)
(* ----------------------------------------------------------------------- *)
_GLOBAL_WINDOW_SECONDS == 4
_GLOBAL_MAX_REQUESTS == 2
_PER_TICKER_MIN_INTERVAL_SECONDS == 2
_CACHE_TTL_SECONDS == 3
_MAX_RETRIES == 2
\* in hundredths of a second
_BACKOFF_BASE_SECONDS == 50

(* Bounds of the model. *)
\* new calls are issued while the clock is below MaxTime
MaxTime == 4
\* the number of tool calls issued in a run of Spec, SpecHandlers, SpecTwice
MaxCalls == 3
HandlersMaxCalls == 3
TwiceMaxCalls == 2
BudgetMaxCalls == 2
FairMaxCalls == 2
\* SpecLimiter: the clock's last value and the number of checks recorded
LimiterMaxTime == 6
MaxChecks == 4
\* SpecCache: the clock's last value
CacheMaxTime == 5

Tasks == {1, 2}
Tickers == {"AAPL", "MSFT"}
LimiterKeys == {"AAPL", "MSFT", "GOOG"}
CacheKeys == {<<"get_stock_info", "AAPL", <<>>>>, <<"get_stock_info", "MSFT", <<>>>>}
Payloads == {"p1", "p2"}

None == [kind |-> "None", val |-> "", retry |-> -1]
Pending == [kind |-> "pending", val |-> "", retry |-> -1]
Str(kind, val) == [kind |-> kind, val |-> val, retry |-> -1]

VARIABLES
    now,        \* time.monotonic()
    g,          \* _global_request_timestamps
    last,       \* _last_ticker_request
    cache,      \* _cache
    task,       \* the tool calls in flight, one per task of the event loop
    running,    \* the task the event loop is executing, 0 when it is free
    log,        \* history: every _rate_limit_check made (SpecLimiter)
    lastSet,    \* history: per cache key, the latest _cache_set (time, value)
    calls,      \* the number of tool calls issued so far
    client,     \* history: the calls of the one client of SpecHandlers
    probe       \* history: the latest direct cache operation (SpecCache)

vars == <<now, g, last, cache, task, running, calls, log, lastSet, client, probe>>

(* ----------------------------------------------------------------------- *)
(* Python dicts as functions with a growing domain.                        *)
(* ----------------------------------------------------------------------- *)
EmptyDict == [k \in {} |-> 0]
Put(d, k, v) == [x \in DOMAIN d \cup {k} |-> IF x = k THEN v ELSE d[x]]
Pop(d, k) == [x \in DOMAIN d \ {k} |-> d[x]]

(* ----------------------------------------------------------------------- *)
(* Rate limiting, server.py:28-53                                          *)
(* ----------------------------------------------------------------------- *)
\* mutant: `if` for `while`, at most one entry is dropped per check
PruneOnlyHead(ts, t) ==
    LET cutoff == t - _GLOBAL_WINDOW_SECONDS
    IN  IF ts # <<>> /\ Head(ts) < cutoff THEN Tail(ts) ELSE ts

\* mutant: the cutoff comparison is <=, so an entry exactly one window old
\* is dropped
RECURSIVE PruneInclusiveCutoff(_, _)
PruneInclusiveCutoff(ts, t) ==
    LET cutoff == t - _GLOBAL_WINDOW_SECONDS
    IN  IF ts # <<>> /\ Head(ts) <= cutoff
        THEN PruneInclusiveCutoff(Tail(ts), t)
        ELSE ts

RECURSIVE _prune_global_timestamps(_, _)
_prune_global_timestamps(ts, t) ==
    LET cutoff == t - _GLOBAL_WINDOW_SECONDS
    IN  IF ts # <<>> /\ Head(ts) < cutoff
        THEN _prune_global_timestamps(Tail(ts), t)
        ELSE ts

\* f"Rate limited. Try after {retry_after:.1f}s.": the wait in tenths
RateLimitedMessage(retry_after) ==
    [kind |-> "rate_limited", val |-> "", retry |-> retry_after * 10]

\* mutant: the timestamp is appended to the global list as soon as the
\* global check passes, before the per-ticker comparison
RateLimitCheckRecordsGlobalFirst(ticker, t, ts, lm) ==
    LET pruned == _prune_global_timestamps(ts, t)
    IN  IF Len(pruned) >= _GLOBAL_MAX_REQUESTS
        THEN [limited |-> TRUE, by |-> "global",
              retry_after |-> _GLOBAL_WINDOW_SECONDS - (t - pruned[1]),
              g |-> pruned, last |-> lm]
        ELSE IF ticker \in DOMAIN lm
                /\ t - lm[ticker] < _PER_TICKER_MIN_INTERVAL_SECONDS
        THEN [limited |-> TRUE, by |-> "ticker",
              retry_after |-> _PER_TICKER_MIN_INTERVAL_SECONDS - (t - lm[ticker]),
              g |-> Append(pruned, t), last |-> lm]
        ELSE [limited |-> FALSE, by |-> "none", retry_after |-> -1,
              g |-> Append(pruned, t), last |-> Put(lm, ticker, t)]

\* mutant: the per-ticker comparison is made before the global one
RateLimitCheckTickerFirst(ticker, t, ts, lm) ==
    LET pruned == _prune_global_timestamps(ts, t)
    IN  IF ticker \in DOMAIN lm
           /\ t - lm[ticker] < _PER_TICKER_MIN_INTERVAL_SECONDS
        THEN [limited |-> TRUE, by |-> "ticker",
              retry_after |-> _PER_TICKER_MIN_INTERVAL_SECONDS - (t - lm[ticker]),
              g |-> pruned, last |-> lm]
        ELSE IF Len(pruned) >= _GLOBAL_MAX_REQUESTS
        THEN [limited |-> TRUE, by |-> "global",
              retry_after |-> _GLOBAL_WINDOW_SECONDS - (t - pruned[1]),
              g |-> pruned, last |-> lm]
        ELSE [limited |-> FALSE, by |-> "none", retry_after |-> -1,
              g |-> Append(pruned, t), last |-> Put(lm, ticker, t)]

\* mutant: the global wait is computed from the newest timestamp
RateLimitCheckRetryFromNewest(ticker, t, ts, lm) ==
    LET pruned == _prune_global_timestamps(ts, t)
    IN  IF Len(pruned) >= _GLOBAL_MAX_REQUESTS
        THEN [limited |-> TRUE, by |-> "global",
              retry_after |-> _GLOBAL_WINDOW_SECONDS - (t - pruned[Len(pruned)]),
              g |-> pruned, last |-> lm]
        ELSE IF ticker \in DOMAIN lm
                /\ t - lm[ticker] < _PER_TICKER_MIN_INTERVAL_SECONDS
        THEN [limited |-> TRUE, by |-> "ticker",
              retry_after |-> _PER_TICKER_MIN_INTERVAL_SECONDS - (t - lm[ticker]),
              g |-> pruned, last |-> lm]
        ELSE [limited |-> FALSE, by |-> "none", retry_after |-> -1,
              g |-> Append(pruned, t), last |-> Put(lm, ticker, t)]

\* mutant: an accepted call does not record its ticker's time
RateLimitCheckNoTickerRecord(ticker, t, ts, lm) ==
    LET pruned == _prune_global_timestamps(ts, t)
    IN  IF Len(pruned) >= _GLOBAL_MAX_REQUESTS
        THEN [limited |-> TRUE, by |-> "global",
              retry_after |-> _GLOBAL_WINDOW_SECONDS - (t - pruned[1]),
              g |-> pruned, last |-> lm]
        ELSE IF ticker \in DOMAIN lm
                /\ t - lm[ticker] < _PER_TICKER_MIN_INTERVAL_SECONDS
        THEN [limited |-> TRUE, by |-> "ticker",
              retry_after |-> _PER_TICKER_MIN_INTERVAL_SECONDS - (t - lm[ticker]),
              g |-> pruned, last |-> lm]
        ELSE [limited |-> FALSE, by |-> "none", retry_after |-> -1,
              g |-> Append(pruned, t), last |-> lm]

\* mutant: the global wait is computed from the per-ticker interval
RateLimitCheckRetryWrongConstant(ticker, t, ts, lm) ==
    LET pruned == _prune_global_timestamps(ts, t)
    IN  IF Len(pruned) >= _GLOBAL_MAX_REQUESTS
        THEN [limited |-> TRUE, by |-> "global",
              retry_after |-> _PER_TICKER_MIN_INTERVAL_SECONDS - (t - pruned[1]),
              g |-> pruned, last |-> lm]
        ELSE IF ticker \in DOMAIN lm
                /\ t - lm[ticker] < _PER_TICKER_MIN_INTERVAL_SECONDS
        THEN [limited |-> TRUE, by |-> "ticker",
              retry_after |-> _PER_TICKER_MIN_INTERVAL_SECONDS - (t - lm[ticker]),
              g |-> pruned, last |-> lm]
        ELSE [limited |-> FALSE, by |-> "none", retry_after |-> -1,
              g |-> Append(pruned, t), last |-> Put(lm, ticker, t)]

\* mutant: a call rejected by the per-ticker throttle restarts the interval
RateLimitCheckRejectionRecords(ticker, t, ts, lm) ==
    LET pruned == _prune_global_timestamps(ts, t)
    IN  IF Len(pruned) >= _GLOBAL_MAX_REQUESTS
        THEN [limited |-> TRUE, by |-> "global",
              retry_after |-> _GLOBAL_WINDOW_SECONDS - (t - pruned[1]),
              g |-> pruned, last |-> lm]
        ELSE IF ticker \in DOMAIN lm
                /\ t - lm[ticker] < _PER_TICKER_MIN_INTERVAL_SECONDS
        THEN [limited |-> TRUE, by |-> "ticker",
              retry_after |-> _PER_TICKER_MIN_INTERVAL_SECONDS - (t - lm[ticker]),
              g |-> pruned, last |-> Put(lm, ticker, t)]
        ELSE [limited |-> FALSE, by |-> "none", retry_after |-> -1,
              g |-> Append(pruned, t), last |-> Put(lm, ticker, t)]

\* mutant: the capacity comparison is > instead of >=
RateLimitCheckCapacityOffByOne(ticker, t, ts, lm) ==
    LET pruned == _prune_global_timestamps(ts, t)
    IN  IF Len(pruned) > _GLOBAL_MAX_REQUESTS
        THEN [limited |-> TRUE, by |-> "global",
              retry_after |-> _GLOBAL_WINDOW_SECONDS - (t - pruned[1]),
              g |-> pruned, last |-> lm]
        ELSE IF ticker \in DOMAIN lm
                /\ t - lm[ticker] < _PER_TICKER_MIN_INTERVAL_SECONDS
        THEN [limited |-> TRUE, by |-> "ticker",
              retry_after |-> _PER_TICKER_MIN_INTERVAL_SECONDS - (t - lm[ticker]),
              g |-> pruned, last |-> lm]
        ELSE [limited |-> FALSE, by |-> "none", retry_after |-> -1,
              g |-> Append(pruned, t), last |-> Put(lm, ticker, t)]

\* mutant: the per-ticker comparison is <= instead of <
RateLimitCheckIntervalInclusive(ticker, t, ts, lm) ==
    LET pruned == _prune_global_timestamps(ts, t)
    IN  IF Len(pruned) >= _GLOBAL_MAX_REQUESTS
        THEN [limited |-> TRUE, by |-> "global",
              retry_after |-> _GLOBAL_WINDOW_SECONDS - (t - pruned[1]),
              g |-> pruned, last |-> lm]
        ELSE IF ticker \in DOMAIN lm
                /\ t - lm[ticker] <= _PER_TICKER_MIN_INTERVAL_SECONDS
        THEN [limited |-> TRUE, by |-> "ticker",
              retry_after |-> _PER_TICKER_MIN_INTERVAL_SECONDS - (t - lm[ticker]),
              g |-> pruned, last |-> lm]
        ELSE [limited |-> FALSE, by |-> "none", retry_after |-> -1,
              g |-> Append(pruned, t), last |-> Put(lm, ticker, t)]

\* The outcome of _rate_limit_check(ticker) read at time t from the global
\* list ts and the per-ticker map lm: what it returns and what it leaves.
_rate_limit_check(ticker, t, ts, lm) ==
    LET pruned == _prune_global_timestamps(ts, t)
    IN  IF Len(pruned) >= _GLOBAL_MAX_REQUESTS
        THEN [limited |-> TRUE, by |-> "global",
              retry_after |-> _GLOBAL_WINDOW_SECONDS - (t - pruned[1]),
              g |-> pruned, last |-> lm]
        ELSE IF ticker \in DOMAIN lm
                /\ t - lm[ticker] < _PER_TICKER_MIN_INTERVAL_SECONDS
        THEN [limited |-> TRUE, by |-> "ticker",
              retry_after |-> _PER_TICKER_MIN_INTERVAL_SECONDS - (t - lm[ticker]),
              g |-> pruned, last |-> lm]
        ELSE [limited |-> FALSE, by |-> "none", retry_after |-> -1,
              g |-> Append(pruned, t), last |-> Put(lm, ticker, t)]

(* ----------------------------------------------------------------------- *)
(* TTL cache, server.py:56-70                                              *)
(* ----------------------------------------------------------------------- *)
\* mutant: the expiry comparison is > instead of >=
CacheGetExpiryExclusive(cache_key, t, c) ==
    IF cache_key \notin DOMAIN c
    THEN [value |-> None, cache |-> c]
    ELSE IF t > c[cache_key].expires_at
    THEN [value |-> None, cache |-> Pop(c, cache_key)]
    ELSE [value |-> c[cache_key].value, cache |-> c]

\* _cache_get(cache_key) at time t: the value returned and the map it leaves
_cache_get(cache_key, t, c) ==
    IF cache_key \notin DOMAIN c
    THEN [value |-> None, cache |-> c]
    ELSE IF t >= c[cache_key].expires_at
    THEN [value |-> None, cache |-> Pop(c, cache_key)]
    ELSE [value |-> c[cache_key].value, cache |-> c]

_cache_set(cache_key, value, t, c) ==
    Put(c, cache_key, [expires_at |-> t + _CACHE_TTL_SECONDS, value |-> value])

(* ----------------------------------------------------------------------- *)
(* Initial state: the module-level state of server.py:23-25, no call in    *)
(* flight.                                                                 *)
(* ----------------------------------------------------------------------- *)
NoExec == [outcome |-> "none", tries |-> 0, sleeps |-> 0, fails |-> 0]

IdleTask ==
    [pc |-> "idle", op |-> "", ticker |-> "", args |-> <<>>, stage |-> "",
     attempt |-> 0, wake_at |-> 0, result |-> Pending,
     \* last_error of the _execute_with_retry in progress ("" for None)
     last_error |-> "",
     \* history of the call, for the properties
     hit |-> FALSE, checked |-> "no", fetches |-> 0,
     tries |-> 0, sleeps |-> 0, fails |-> 0, lastExec |-> NoExec,
     \* SpecBackoff: the backoff delays of the execute in progress, in
     \* hundredths of a second
     delays |-> <<>>]

\* the client of SpecTwice: when its current call was issued, and its
\* previous call (key, time of issue, time of return, result, whether the
\* result came from the cache); the clients of SpecBudget: when the call of
\* each task was issued, and for every returned call that the limiters had
\* accepted, its handler, the time of its acceptance and its fetch attempts
NoClient ==
    [issued |-> 0, prevKey |-> <<>>, prevIssued |-> 0, prevReturned |-> 0,
     prevResult |-> Pending, prevHit |-> FALSE,
     began |-> [i \in Tasks |-> 0], spent |-> <<>>]

NoProbe == [op |-> "none", key |-> <<>>, t |-> 0, value |-> None, had |-> FALSE]

Init ==
    /\ now = 0
    /\ g = <<>>
    /\ last = EmptyDict
    /\ cache = EmptyDict
    /\ task = [i \in Tasks |-> IdleTask]
    /\ running = 0
    /\ log = <<>>
    /\ lastSet = EmptyDict
    /\ calls = 0
    /\ client = NoClient
    /\ probe = NoProbe

(* ----------------------------------------------------------------------- *)
(* SpecLimiter: _rate_limit_check called directly, under a moving clock.   *)
(* ----------------------------------------------------------------------- *)
LimiterTick ==
    /\ now < LimiterMaxTime
    /\ now' = now + 1
    /\ UNCHANGED <<g, last, cache, task, running, log, lastSet, client, probe, calls>>

Check(ticker) ==
    /\ Len(log) < MaxChecks
    /\ LET r == _rate_limit_check(ticker, now, g, last)
       IN  /\ g' = r.g
           /\ last' = r.last
           /\ log' = Append(log,
                  [t |-> now, ticker |-> ticker, limited |-> r.limited,
                   by |-> r.by, retry_after |-> r.retry_after,
                   msg |-> IF r.limited THEN RateLimitedMessage(r.retry_after)
                                        ELSE None])
    /\ UNCHANGED <<now, cache, task, running, lastSet, client, probe, calls>>

LimiterNext == LimiterTick \/ \E k \in LimiterKeys : Check(k)

SpecLimiter == Init /\ [][LimiterNext]_vars

(* ----------------------------------------------------------------------- *)
(* Retry executor, server.py:73-90                                         *)
(* ----------------------------------------------------------------------- *)
\* Messages the upstream client raises; _is_rate_limited_error looks for
\* "too many requests" or "rate limited" in the lowercased message.
TransientMessages == {"429 Too Many Requests"}
OtherMessages == {"Connection reset"}

_is_rate_limited_error(exc) == exc \in TransientMessages

Value(v) == [kind |-> "value", val |-> v]
Raise(msg) == [kind |-> "raise", val |-> msg]

\* mutant: 2 * attempt for 2 ** attempt
BackoffLinear(attempt) ==
    LET backoff == _BACKOFF_BASE_SECONDS * (2 * attempt)
    IN  {backoff + jitter : jitter \in 0..((3 * backoff) \div 10)}

\* backoff = _BACKOFF_BASE_SECONDS * 2**attempt, plus
\* random.uniform(0, 0.3 * backoff): the delays possible, in hundredths
Backoff(attempt) ==
    LET backoff == _BACKOFF_BASE_SECONDS * (2 ^ attempt)
    IN  {backoff + jitter : jitter \in 0..((3 * backoff) \div 10)}

\* asyncio.sleep(backoff) resumes at the first whole second of the clock
\* that is not before the delay
SleepSeconds(attempt) == {(b + 99) \div 100 : b \in Backoff(attempt)}

\* mutant: every exception is retried, whatever its message
ExecuteWithRetryAnyError(attempt, out) ==
    IF out.kind = "value"
    THEN [next |-> "return", val |-> out.val]
    ELSE IF attempt >= _MAX_RETRIES
    THEN [next |-> "raise", val |-> out.val]
    ELSE [next |-> "sleep", val |-> out.val]

\* mutant: the exhaustion comparison is > instead of >=
ExecuteWithRetryOneMore(attempt, out) ==
    IF out.kind = "value"
    THEN [next |-> "return", val |-> out.val]
    ELSE IF ~_is_rate_limited_error(out.val) \/ attempt > _MAX_RETRIES
    THEN [next |-> "raise", val |-> out.val]
    ELSE [next |-> "sleep", val |-> out.val]

\* One turn of the loop of _execute_with_retry: what follows the outcome
\* `out` of fetcher() at 0-based attempt `attempt`.
_execute_with_retry(attempt, out) ==
    IF out.kind = "value"
    THEN [next |-> "return", val |-> out.val]
    ELSE IF ~_is_rate_limited_error(out.val) \/ attempt >= _MAX_RETRIES
    THEN [next |-> "raise", val |-> out.val]
    ELSE [next |-> "sleep", val |-> out.val]

(* ----------------------------------------------------------------------- *)
(* Tool handlers, server.py:155-687.  Every handler opens with the cache   *)
(* lookup and the rate-limit check (Call, RateLimit below); the operator   *)
(* named after a handler is what the handler does once the fetch of        *)
(* `stage` has returned `val`: fetch the next stage, or return.            *)
(* ----------------------------------------------------------------------- *)
FinancialType ==
    {"income_stmt", "quarterly_income_stmt", "balance_sheet",
     "quarterly_balance_sheet", "cashflow", "quarterly_cashflow"}
HolderType ==
    {"major_holders", "institutional_holders", "mutualfund_holders",
     "insider_transactions", "insider_purchases", "insider_roster_holders"}
RecommendationType == {"recommendations", "upgrades_downgrades"}
\* company.options as the upstream reports it
Expirations == {"2026-01-16"}

Fetch(stage) == [act |-> "fetch", stage |-> stage, result |-> Pending, store |-> FALSE]
Return(result) == [act |-> "return", stage |-> "", result |-> result, store |-> FALSE]
StoreAndReturn(result) == [act |-> "return", stage |-> "", result |-> result, store |-> TRUE]

\* isin is None: f"Company ticker {ticker} not found."
IsinFound(val, then) ==
    IF val = "None" THEN Return(Str("not_found", "")) ELSE then

get_historical_stock_prices(stage, args, val) ==
    IF stage = "isin" THEN IsinFound(val, Fetch("data"))
    ELSE StoreAndReturn(Str("payload", val))

get_stock_info(stage, args, val) ==
    IF stage = "isin" THEN IsinFound(val, Fetch("data"))
    ELSE StoreAndReturn(Str("payload", val))

\* mutant: the "no news found" message is stored in the cache too
NewsCachesNoNews(stage, args, val) ==
    IF stage = "isin" THEN IsinFound(val, Fetch("data"))
    ELSE IF val = "no_story" THEN StoreAndReturn(Str("no_news", ""))
    ELSE StoreAndReturn(Str("payload", val))

get_yahoo_finance_news(stage, args, val) ==
    IF stage = "isin" THEN IsinFound(val, Fetch("data"))
    ELSE IF val = "no_story" THEN Return(Str("no_news", ""))
    ELSE StoreAndReturn(Str("payload", val))

get_stock_actions(stage, args, val) ==
    StoreAndReturn(Str("payload", val))

get_financial_statement(stage, args, val) ==
    IF stage = "isin"
    THEN IsinFound(val,
            IF args[1] \in FinancialType THEN Fetch("data")
            ELSE Return(Str("invalid", "financial type")))
    ELSE StoreAndReturn(Str("payload", val))

get_holder_info(stage, args, val) ==
    IF stage = "isin"
    THEN IsinFound(val,
            IF args[1] \in HolderType THEN Fetch("data")
            ELSE Return(Str("invalid", "holder type")))
    ELSE StoreAndReturn(Str("payload", val))

\* mutant: the result is returned without _cache_set
OptionExpirationDatesNotCached(stage, args, val) ==
    IF stage = "isin" THEN IsinFound(val, Fetch("data"))
    ELSE Return(Str("payload", val))

get_option_expiration_dates(stage, args, val) ==
    IF stage = "isin" THEN IsinFound(val, Fetch("data"))
    ELSE StoreAndReturn(Str("payload", val))

\* mutant: the expiration date is not compared with company.options
OptionChainNoDateCheck(stage, args, val) ==
    IF stage = "isin" THEN IsinFound(val, Fetch("options"))
    ELSE IF stage = "options"
    THEN IF args[2] \notin {"calls", "puts"}
         THEN Return(Str("invalid", "option type"))
         ELSE Fetch("chain")
    ELSE StoreAndReturn(Str("payload", val))

get_option_chain(stage, args, val) ==
    IF stage = "isin" THEN IsinFound(val, Fetch("options"))
    ELSE IF stage = "options"
    THEN IF args[1] \notin Expirations
         THEN Return(Str("invalid", "expiration date"))
         ELSE IF args[2] \notin {"calls", "puts"}
         THEN Return(Str("invalid", "option type"))
         ELSE Fetch("chain")
    ELSE StoreAndReturn(Str("payload", val))

\* neither branch of the if/elif taken: the function ends without a return
get_recommendations(stage, args, val) ==
    IF stage = "isin"
    THEN IsinFound(val,
            IF args[1] \in RecommendationType THEN Fetch("data")
            ELSE Return(None))
    ELSE StoreAndReturn(Str("payload", val))

Handler(op, stage, args, val) ==
    CASE op = "get_historical_stock_prices" -> get_historical_stock_prices(stage, args, val)
      [] op = "get_stock_info" -> get_stock_info(stage, args, val)
      [] op = "get_yahoo_finance_news" -> get_yahoo_finance_news(stage, args, val)
      [] op = "get_stock_actions" -> get_stock_actions(stage, args, val)
      [] op = "get_financial_statement" -> get_financial_statement(stage, args, val)
      [] op = "get_holder_info" -> get_holder_info(stage, args, val)
      [] op = "get_option_expiration_dates" -> get_option_expiration_dates(stage, args, val)
      [] op = "get_option_chain" -> get_option_chain(stage, args, val)
      [] op = "get_recommendations" -> get_recommendations(stage, args, val)

\* the first fetch after the rate-limit check
FirstStage(op) == IF op = "get_stock_actions" THEN "data" ELSE "isin"

\* what the upstream client may answer to the fetch of a stage
Upstream(op, stage) ==
    (IF stage = "isin" THEN {Value("None"), Value("US0378331005")}
     ELSE IF stage = "options" THEN {Value("dates")}
     ELSE IF op = "get_yahoo_finance_news"
     THEN {Value(p) : p \in Payloads} \cup {Value("no_story")}
     ELSE {Value(p) : p \in Payloads})
    \cup {Raise(m) : m \in TransientMessages \cup OtherMessages}

\* the calls a client issues under SpecHandlers
Calls ==
    {<<"get_historical_stock_prices", "AAPL", <<"1mo", "1d">>>>,
     <<"get_stock_info", "MSFT", <<>>>>,
     <<"get_yahoo_finance_news", "AAPL", <<>>>>,
     <<"get_stock_actions", "AAPL", <<>>>>,
     <<"get_financial_statement", "AAPL", <<"income_stmt">>>>,
     <<"get_financial_statement", "AAPL", <<"bogus_type">>>>,
     <<"get_holder_info", "MSFT", <<"major_holders">>>>,
     <<"get_holder_info", "MSFT", <<"bogus_type">>>>,
     <<"get_option_expiration_dates", "AAPL", <<>>>>,
     <<"get_option_chain", "AAPL", <<"2026-01-16", "calls">>>>,
     <<"get_option_chain", "AAPL", <<"2099-01-01", "calls">>>>,
     <<"get_option_chain", "AAPL", <<"2026-01-16", "both">>>>,
     <<"get_recommendations", "MSFT", <<"recommendations", "12">>>>,
     <<"get_recommendations", "MSFT", <<"bogus_type", "12">>>>}

CacheKey(t) == <<t.op, t.ticker, t.args>>

(* ----------------------------------------------------------------------- *)
(* Spec: tool calls as tasks of one event loop.  A task runs from one      *)
(* await asyncio.sleep to the next without any other task running; the     *)
(* clock moves at any time.                                                *)
(* ----------------------------------------------------------------------- *)
\* The clock reaches its next whole second while the event loop is idle:
\* one uninterrupted run of a task takes less than a second, a task whose
\* sleep is over is resumed at once, and a returned call is taken by the
\* transport at once.  The clock stops at MaxTime unless a task still sleeps.
Tick ==
    /\ \/ now < MaxTime
       \/ \E i \in Tasks : task[i].pc = "sleep" /\ task[i].wake_at > now
    /\ running = 0
    /\ \A i \in Tasks : task[i].pc # "done"
    /\ \A i \in Tasks : ~(task[i].pc = "sleep" /\ task[i].wake_at <= now)
    /\ now' = now + 1
    /\ UNCHANGED <<g, last, cache, task, running, log, lastSet, client, probe, calls>>

\* the call has returned `result` to the transport
Returned(t, result) ==
    [t EXCEPT !.pc = "done", !.result = result]

\* mutant: the rate-limit check is made before the cached value is returned
EnterLimitsCacheHits(self, op, ticker, args) ==
    /\ running = 0
    /\ task[self].pc = "idle"
    /\ now < MaxTime
    /\ LET key == <<op, ticker, args>>
           r == _cache_get(key, now, cache)
           l == _rate_limit_check(ticker, now, g, last)
           t == [IdleTask EXCEPT !.op = op, !.ticker = ticker, !.args = args]
       IN  /\ cache' = r.cache
           /\ IF r.value # None
              THEN /\ task' = [task EXCEPT ![self] =
                          Returned([t EXCEPT !.hit = TRUE],
                                   IF l.limited THEN RateLimitedMessage(l.retry_after)
                                                ELSE r.value)]
                   /\ running' = 0
                   /\ g' = l.g
                   /\ last' = l.last
              ELSE /\ task' = [task EXCEPT ![self] = [t EXCEPT !.pc = "limit"]]
                   /\ running' = self
                   /\ UNCHANGED <<g, last>>
    /\ calls' = calls + 1
    /\ UNCHANGED <<now, log, lastSet, probe>>

\* The handler is entered and looks its cache key up (e.g. server.py:172-175)
Enter(self, op, ticker, args) ==
    /\ running = 0
    /\ task[self].pc = "idle"
    /\ now < MaxTime
    /\ LET key == <<op, ticker, args>>
           r == _cache_get(key, now, cache)
           t == [IdleTask EXCEPT !.op = op, !.ticker = ticker, !.args = args]
       IN  /\ cache' = r.cache
           /\ IF r.value # None
              THEN /\ task' = [task EXCEPT ![self] =
                                  Returned([t EXCEPT !.hit = TRUE], r.value)]
                   /\ running' = 0
              ELSE /\ task' = [task EXCEPT ![self] = [t EXCEPT !.pc = "limit"]]
                   /\ running' = self
    /\ calls' = calls + 1
    /\ UNCHANGED <<now, g, last, log, lastSet, probe>>

\* mutant: the handler goes on to the fetch whatever the check returned
RateLimitIgnored(self) ==
    /\ running = self
    /\ task[self].pc = "limit"
    /\ LET t == task[self]
           r == _rate_limit_check(t.ticker, now, g, last)
       IN  /\ g' = r.g
           /\ last' = r.last
           /\ task' = [task EXCEPT ![self] =
                  [t EXCEPT !.checked = IF r.limited THEN "limited" ELSE "passed",
                            !.pc = "fetch", !.stage = FirstStage(t.op)]]
           /\ running' = self
    /\ UNCHANGED <<now, cache, log, lastSet, client, probe, calls>>

\* rate_limited, message = _rate_limit_check(ticker) (e.g. server.py:177-179)
RateLimit(self) ==
    /\ running = self
    /\ task[self].pc = "limit"
    /\ LET t == task[self]
           r == _rate_limit_check(t.ticker, now, g, last)
       IN  /\ g' = r.g
           /\ last' = r.last
           /\ IF r.limited
              THEN /\ task' = [task EXCEPT ![self] =
                          Returned([t EXCEPT !.checked = "limited"],
                                   RateLimitedMessage(r.retry_after))]
                   /\ running' = 0
              ELSE /\ task' = [task EXCEPT ![self] =
                          [t EXCEPT !.checked = "passed", !.pc = "fetch",
                                    !.stage = FirstStage(t.op)]]
                   /\ running' = self
    /\ UNCHANGED <<now, cache, log, lastSet, client, probe, calls>>

\* mutant: the backoff is a blocking sleep; the task keeps the event loop
AttemptBlockingSleep(self, out) ==
    /\ running = self
    /\ task[self].pc = "fetch"
    /\ out \in Upstream(task[self].op, task[self].stage)
    /\ LET t0 == task[self]
           t == [t0 EXCEPT !.fetches = @ + 1, !.tries = @ + 1]
           e == _execute_with_retry(t.attempt, out)
           key == CacheKey(t)
       IN  CASE e.next = "sleep" ->
                  \E d \in SleepSeconds(t.attempt) :
                    /\ task' = [task EXCEPT ![self] =
                           [t EXCEPT !.pc = "sleep", !.wake_at = now + d,
                                     !.last_error = e.val,
                                     !.sleeps = @ + 1, !.fails = @ + 1]]
                    /\ running' = self
                    /\ cache' = cache
             [] e.next = "raise" ->
                  \* except Exception as e: return f"Error: ... {e}"
                  /\ task' = [task EXCEPT ![self] =
                         Returned([t EXCEPT !.last_error = e.val,
                                            !.lastExec =
                                      [outcome |-> "raised", tries |-> t.tries,
                                       sleeps |-> t.sleeps, fails |-> t.fails]],
                                  Str("error", e.val))]
                  /\ running' = 0
                  /\ cache' = cache
             [] e.next = "return" ->
                  LET h == Handler(t.op, t.stage, t.args, e.val)
                      x == [t EXCEPT !.lastExec =
                                [outcome |-> "returned", tries |-> t.tries,
                                 sleeps |-> t.sleeps, fails |-> t.fails]]
                  IN  IF h.act = "fetch"
                      THEN /\ task' = [task EXCEPT ![self] =
                                  [x EXCEPT !.stage = h.stage, !.attempt = 0,
                                            !.last_error = "",
                                            !.tries = 0, !.sleeps = 0, !.fails = 0]]
                           /\ running' = self
                           /\ cache' = cache
                      ELSE /\ task' = [task EXCEPT ![self] = Returned(x, h.result)]
                           /\ running' = 0
                           /\ cache' = IF h.store
                                       THEN _cache_set(key, h.result, now, cache)
                                       ELSE cache
    /\ UNCHANGED <<now, g, last, log, lastSet, client, probe, calls>>

\* mutant: a fetch that raises gives the limiter usage of the call back
AttemptRollsBack(self, out) ==
    /\ running = self
    /\ task[self].pc = "fetch"
    /\ out \in Upstream(task[self].op, task[self].stage)
    /\ LET t0 == task[self]
           t == [t0 EXCEPT !.fetches = @ + 1, !.tries = @ + 1]
           e == _execute_with_retry(t.attempt, out)
           key == CacheKey(t)
       IN  CASE e.next = "sleep" ->
                  \E d \in SleepSeconds(t.attempt) :
                    /\ task' = [task EXCEPT ![self] =
                           [t EXCEPT !.pc = "sleep", !.wake_at = now + d,
                                     !.last_error = e.val,
                                     !.sleeps = @ + 1, !.fails = @ + 1]]
                    /\ running' = 0
                    /\ cache' = cache
                    /\ UNCHANGED <<g, last>>
             [] e.next = "raise" ->
                  \* except Exception as e: return f"Error: ... {e}"
                  /\ task' = [task EXCEPT ![self] =
                         Returned([t EXCEPT !.last_error = e.val,
                                            !.lastExec =
                                      [outcome |-> "raised", tries |-> t.tries,
                                       sleeps |-> t.sleeps, fails |-> t.fails]],
                                  Str("error", e.val))]
                  /\ running' = 0
                  /\ cache' = cache
                  /\ g' = SubSeq(g, 1, Len(g) - 1)
                  /\ last' = Pop(last, t.ticker)
             [] e.next = "return" ->
                  LET h == Handler(t.op, t.stage, t.args, e.val)
                      x == [t EXCEPT !.lastExec =
                                [outcome |-> "returned", tries |-> t.tries,
                                 sleeps |-> t.sleeps, fails |-> t.fails]]
                  IN  IF h.act = "fetch"
                      THEN /\ task' = [task EXCEPT ![self] =
                                  [x EXCEPT !.stage = h.stage, !.attempt = 0,
                                            !.last_error = "",
                                            !.tries = 0, !.sleeps = 0, !.fails = 0]]
                           /\ running' = self
                           /\ cache' = cache
                           /\ UNCHANGED <<g, last>>
                      ELSE /\ task' = [task EXCEPT ![self] = Returned(x, h.result)]
                           /\ running' = 0
                           /\ cache' = IF h.store
                                       THEN _cache_set(key, h.result, now, cache)
                                       ELSE cache
                           /\ UNCHANGED <<g, last>>
    /\ UNCHANGED <<now, log, lastSet, client, probe, calls>>

\* One attempt of the fetch of the current stage inside _execute_with_retry,
\* with the upstream answering `out`, and what the handler does with it.
Attempt(self, out) ==
    /\ running = self
    /\ task[self].pc = "fetch"
    /\ out \in Upstream(task[self].op, task[self].stage)
    /\ LET t0 == task[self]
           t == [t0 EXCEPT !.fetches = @ + 1, !.tries = @ + 1]
           e == _execute_with_retry(t.attempt, out)
           key == CacheKey(t)
       IN  CASE e.next = "sleep" ->
                  \E d \in SleepSeconds(t.attempt) :
                    /\ task' = [task EXCEPT ![self] =
                           [t EXCEPT !.pc = "sleep", !.wake_at = now + d,
                                     !.last_error = e.val,
                                     !.sleeps = @ + 1, !.fails = @ + 1]]
                    /\ running' = 0
                    /\ cache' = cache
             [] e.next = "raise" ->
                  \* except Exception as e: return f"Error: ... {e}"
                  /\ task' = [task EXCEPT ![self] =
                         Returned([t EXCEPT !.last_error = e.val,
                                            !.lastExec =
                                      [outcome |-> "raised", tries |-> t.tries,
                                       sleeps |-> t.sleeps, fails |-> t.fails]],
                                  Str("error", e.val))]
                  /\ running' = 0
                  /\ cache' = cache
             [] e.next = "return" ->
                  LET h == Handler(t.op, t.stage, t.args, e.val)
                      x == [t EXCEPT !.lastExec =
                                [outcome |-> "returned", tries |-> t.tries,
                                 sleeps |-> t.sleeps, fails |-> t.fails]]
                  IN  IF h.act = "fetch"
                      THEN /\ task' = [task EXCEPT ![self] =
                                  [x EXCEPT !.stage = h.stage, !.attempt = 0,
                                            !.last_error = "",
                                            !.tries = 0, !.sleeps = 0, !.fails = 0]]
                           /\ running' = self
                           /\ cache' = cache
                      ELSE /\ task' = [task EXCEPT ![self] = Returned(x, h.result)]
                           /\ running' = 0
                           /\ cache' = IF h.store
                                       THEN _cache_set(key, h.result, now, cache)
                                       ELSE cache
    /\ UNCHANGED <<now, g, last, log, lastSet, client, probe, calls>>

\* mutant: a sleeper resumes only when no other call is in flight
WakeAfterOthers(self) ==
    /\ running = 0
    /\ task[self].pc = "sleep"
    /\ now >= task[self].wake_at
    /\ \A j \in Tasks \ {self} : task[j].pc = "idle"
    /\ task' = [task EXCEPT ![self] = [@ EXCEPT !.pc = "fetch", !.attempt = @ + 1]]
    /\ running' = self
    /\ UNCHANGED <<now, g, last, cache, log, lastSet, client, probe, calls>>

\* await asyncio.sleep(backoff) is over: the loop goes to its next attempt
Wake(self) ==
    /\ running = 0
    /\ task[self].pc = "sleep"
    /\ now >= task[self].wake_at
    /\ task' = [task EXCEPT ![self] = [@ EXCEPT !.pc = "fetch", !.attempt = @ + 1]]
    /\ running' = self
    /\ UNCHANGED <<now, g, last, cache, log, lastSet, client, probe, calls>>

\* the transport has taken the result; the task is free for the next call
Leave(self) ==
    /\ task[self].pc = "done"
    /\ task' = [task EXCEPT ![self] = IdleTask]
    /\ UNCHANGED <<now, g, last, cache, running, log, lastSet, probe, calls>>

Call(self, op, ticker, args) == Enter(self, op, ticker, args) /\ UNCHANGED client

Finish(self) == Leave(self) /\ UNCHANGED client

\* the calls issued concurrently under Spec
ConcurrentCalls ==
    {<<"get_stock_info", tk, <<>>>> : tk \in Tickers}

Next ==
    \/ Tick
    \/ \E self \in Tasks : \E c \in ConcurrentCalls :
          calls < MaxCalls /\ Call(self, c[1], c[2], c[3])
    \/ \E self \in Tasks : RateLimit(self)
    \/ \E self \in Tasks :
          \E out \in Upstream(task[self].op, task[self].stage) : Attempt(self, out)
    \/ \E self \in Tasks : Wake(self)
    \/ \E self \in Tasks : Finish(self)

Spec == Init /\ [][Next]_vars

(* ----------------------------------------------------------------------- *)
(* SpecHandlers: one client calling every handler, one call after another. *)
(* ----------------------------------------------------------------------- *)
HandlersNext ==
    \/ Tick
    \/ \E c \in Calls : calls < HandlersMaxCalls /\ Call(1, c[1], c[2], c[3])
    \/ RateLimit(1)
    \/ \E out \in Upstream(task[1].op, task[1].stage) : Attempt(1, out)
    \/ Wake(1)
    \/ Finish(1)

SpecHandlers == Init /\ [][HandlersNext]_vars

(* ----------------------------------------------------------------------- *)
(* SpecTwice: one client repeating a call, with its previous call on       *)
(* record.                                                                 *)
(* ----------------------------------------------------------------------- *)
TwiceCalls ==
    {<<"get_option_expiration_dates", "AAPL", <<>>>>,
     <<"get_stock_info", "MSFT", <<>>>>}

ClientCall(op, ticker, args) ==
    /\ Enter(1, op, ticker, args)
    /\ client' = [client EXCEPT !.issued = now]

ClientFinish ==
    /\ Leave(1)
    /\ client' = [client EXCEPT !.prevKey = CacheKey(task[1]),
                                !.prevIssued = client.issued,
                                !.prevReturned = now,
                                !.prevResult = task[1].result,
                                !.prevHit = task[1].hit]

TwiceNext ==
    \/ Tick
    \/ \E c \in TwiceCalls : calls < TwiceMaxCalls /\ ClientCall(c[1], c[2], c[3])
    \/ RateLimit(1)
    \/ \E out \in Upstream(task[1].op, task[1].stage) : Attempt(1, out)
    \/ Wake(1)
    \/ ClientFinish

SpecTwice == Init /\ [][TwiceNext]_vars

(* ----------------------------------------------------------------------- *)
(* SpecBudget: concurrent calls of handlers with one, two and three fetch  *)
(* steps, with the fetch attempts of every accepted call on record.        *)
(* ----------------------------------------------------------------------- *)
BudgetCalls ==
    {<<"get_option_chain", "AAPL", <<"2026-01-16", "calls">>>>,
     <<"get_option_chain", "MSFT", <<"2026-01-16", "puts">>>>,
     <<"get_stock_info", "MSFT", <<>>>>,
     <<"get_stock_actions", "AAPL", <<>>>>}

\* the handler runs from its entry to the rate-limit check without
\* suspending, so the check is made at the time of the call
BudgetCall(self, op, ticker, args) ==
    /\ Enter(self, op, ticker, args)
    /\ client' = [client EXCEPT !.began[self] = now]

BudgetFinish(self) ==
    /\ Leave(self)
    /\ client' = IF task[self].checked = "passed"
                 THEN [client EXCEPT !.spent =
                          Append(@, [op |-> task[self].op,
                                     t |-> client.began[self],
                                     fetches |-> task[self].fetches])]
                 ELSE client

BudgetNext ==
    \/ Tick
    \/ \E self \in Tasks : \E c \in BudgetCalls :
          calls < BudgetMaxCalls /\ BudgetCall(self, c[1], c[2], c[3])
    \/ \E self \in Tasks : RateLimit(self)
    \/ \E self \in Tasks :
          \E out \in Upstream(task[self].op, task[self].stage) : Attempt(self, out)
    \/ \E self \in Tasks : Wake(self)
    \/ \E self \in Tasks : BudgetFinish(self)

SpecBudget == Init /\ [][BudgetNext]_vars

(* ----------------------------------------------------------------------- *)
(* SpecFair: concurrent calls under a fair event loop: the clock advances, *)
(* a task that holds the loop takes its next step (every fetch returns or  *)
(* raises), a sleeper whose delay is over is resumed, and the transport    *)
(* takes the result of a call that has returned.                           *)
(* ----------------------------------------------------------------------- *)
FairCalls ==
    {<<"get_option_expiration_dates", "AAPL", <<>>>>,
     <<"get_stock_info", "MSFT", <<>>>>}

FairAttempt(self) ==
    \E out \in Upstream(task[self].op, task[self].stage) : Attempt(self, out)

FairNext ==
    \/ Tick
    \/ \E self \in Tasks : \E c \in FairCalls :
          calls < FairMaxCalls /\ Call(self, c[1], c[2], c[3])
    \/ \E self \in Tasks : RateLimit(self)
    \/ \E self \in Tasks : FairAttempt(self)
    \/ \E self \in Tasks : Wake(self)
    \/ \E self \in Tasks : Finish(self)

SpecFair ==
    /\ Init
    /\ [][FairNext]_vars
    /\ WF_vars(Tick)
    /\ \A self \in Tasks :
          /\ WF_vars(RateLimit(self))
          /\ WF_vars(FairAttempt(self))
          /\ WF_vars(Wake(self))
          /\ WF_vars(Finish(self))

(* ----------------------------------------------------------------------- *)
(* SpecBackoff: one _execute_with_retry after another, with the delay of   *)
(* every backoff sleep on record in hundredths of a second.                *)
(* ----------------------------------------------------------------------- *)
\* _execute_with_retry is called: last_error = None, attempt = 0
BackoffStart ==
    /\ task[1].pc = "idle"
    /\ task' = [task EXCEPT ![1] = [IdleTask EXCEPT !.pc = "fetch"]]
    /\ UNCHANGED <<now, g, last, cache, running, log, lastSet, client, probe, calls>>

\* one turn of the loop: fetcher() answers `out`; after a transient failure
\* with attempts left the task sleeps `backoff` and goes to the next attempt
BackoffAttempt(out) ==
    /\ task[1].pc = "fetch"
    /\ LET t == [task[1] EXCEPT !.tries = @ + 1]
           e == _execute_with_retry(t.attempt, out)
       IN  CASE e.next = "sleep" ->
                  \E backoff \in Backoff(t.attempt) :
                    task' = [task EXCEPT ![1] =
                        [t EXCEPT !.last_error = e.val, !.attempt = @ + 1,
                                  !.sleeps = @ + 1, !.fails = @ + 1,
                                  !.delays = Append(@, backoff)]]
             [] e.next = "raise" ->
                  task' = [task EXCEPT ![1] =
                      [t EXCEPT !.pc = "done", !.last_error = e.val,
                                !.lastExec = [outcome |-> "raised", tries |-> t.tries,
                                              sleeps |-> t.sleeps, fails |-> t.fails]]]
             [] e.next = "return" ->
                  task' = [task EXCEPT ![1] =
                      [t EXCEPT !.pc = "done",
                                !.lastExec = [outcome |-> "returned", tries |-> t.tries,
                                              sleeps |-> t.sleeps, fails |-> t.fails]]]
    /\ UNCHANGED <<now, g, last, cache, running, log, lastSet, client, probe, calls>>

\* the execute is over
BackoffEnd ==
    /\ task[1].pc = "done"
    /\ task' = [task EXCEPT ![1] = IdleTask]
    /\ UNCHANGED <<now, g, last, cache, running, log, lastSet, client, probe, calls>>

BackoffNext ==
    \/ BackoffStart
    \/ \E out \in {Value("p1")} \cup {Raise(m) : m \in TransientMessages \cup OtherMessages} :
          BackoffAttempt(out)
    \/ BackoffEnd

SpecBackoff == Init /\ [][BackoffNext]_vars

RECURSIVE Sum(_)
Sum(seq) == IF seq = <<>> THEN 0 ELSE Head(seq) + Sum(Tail(seq))

\* C21: the delay slept after the transient failure of attempt i is in
\* [base * 2^i, 1.3 * base * 2^i]; every delay possible at attempt i + 1
\* exceeds every delay possible at attempt i, so the delays of one execute
\* increase strictly; and their sum is at most
\* 1.3 * base * (2^_MAX_RETRIES - 1).
C21_BackoffBounds ==
    LET d == task[1].delays
    IN  /\ Len(d) <= _MAX_RETRIES
        /\ \A k \in DOMAIN d :
              /\ _BACKOFF_BASE_SECONDS * 2 ^ (k - 1) <= d[k]
              /\ 10 * d[k] <= 13 * _BACKOFF_BASE_SECONDS * 2 ^ (k - 1)
        /\ \A j, k \in DOMAIN d : j < k => d[j] < d[k]
        /\ \A i \in 0..(_MAX_RETRIES - 1) :
              \A a \in Backoff(i) : \A b \in Backoff(i + 1) : a < b
        /\ 10 * Sum(d) <= 13 * _BACKOFF_BASE_SECONDS * (2 ^ _MAX_RETRIES - 1)

\* C21 witness: an execute that slept the longest delay of attempt 0 and
\* then the shortest of attempt 1, and has raised after its last attempt
C21_Witness ==
    /\ task[1].pc = "done"
    /\ task[1].lastExec.outcome = "raised"
    /\ Len(task[1].delays) = _MAX_RETRIES
    /\ 10 * task[1].delays[1] = 13 * _BACKOFF_BASE_SECONDS
    /\ task[1].delays[2] = 2 * _BACKOFF_BASE_SECONDS

(* ----------------------------------------------------------------------- *)
(* Handler properties.                                                     *)
(* ----------------------------------------------------------------------- *)
HasUnexpired(key) == key \in DOMAIN cache /\ now < cache[key].expires_at

\* C5: a call whose cache key holds an unexpired entry returns the cached
\* string in the step that enters the handler, whatever the limiters hold,
\* with no upstream fetch and with the global timestamp list and the
\* per-ticker map unchanged.
C5_CacheHitBypassesLimiters ==
    [][\A i \in Tasks :
          (/\ task[i].pc = "idle"
           /\ task'[i].pc # "idle"
           /\ HasUnexpired(CacheKey(task'[i])))
          => /\ task'[i].pc = "done"
             /\ task'[i].result = cache[CacheKey(task'[i])].value
             /\ task'[i].fetches = 0
             /\ task'[i].checked = "no"
             /\ g' = g
             /\ last' = last]_vars

\* C5 witness: a call served from the cache while the global window is at
\* capacity and its ticker was used less than the minimum interval ago
C5_Witness ==
    \E i \in Tasks :
        /\ task[i].pc = "done"
        /\ task[i].hit
        /\ task[i].result.kind = "payload"
        /\ Len(_prune_global_timestamps(g, now)) >= _GLOBAL_MAX_REQUESTS
        /\ task[i].ticker \in DOMAIN last
        /\ now - last[task[i].ticker] < _PER_TICKER_MIN_INTERVAL_SECONDS

\* C6 as stated: every call that returns, returns a string
C6_ReturnsString ==
    \A i \in Tasks :
        task[i].pc = "done" => task[i].result.kind \notin {"None", "pending"}

\* C7: no upstream fetch of a call happens unless that call's
\* _rate_limit_check returned "not limited" before; a rejected call has
\* returned the rate-limit message with no fetch attempt.
C7_NoFetchUnlessPassed ==
    \A i \in Tasks :
        /\ (task[i].fetches > 0 \/ task[i].pc \in {"fetch", "sleep"})
              => task[i].checked = "passed"
        /\ task[i].checked = "limited"
              => /\ task[i].fetches = 0
                 /\ task[i].pc = "done"
                 /\ task[i].result.kind = "rate_limited"

\* C7 witness: a call rejected by the limiter has returned with no fetch
\* while another call is fetching
C7_Witness ==
    \E i, j \in Tasks :
        /\ task[i].checked = "limited"
        /\ task[i].pc = "done"
        /\ task[i].fetches = 0
        /\ task[j].fetches > 0

\* C8 as stated: a call repeating the previous call, issued less than
\* _CACHE_TTL_SECONDS after it, returns the same output.
C8_Original ==
    (/\ task[1].pc = "done"
     /\ client.prevKey = CacheKey(task[1])
     /\ client.issued - client.prevIssued < _CACHE_TTL_SECONDS)
    => task[1].result = client.prevResult

\* C8 amended: if the previous call fetched its payload from the upstream
\* and returned it, a call repeating it, issued after it returned and less
\* than _CACHE_TTL_SECONDS after it was issued, returns the same output,
\* from the cache and with no upstream fetch.
C8_Amended ==
    (/\ task[1].pc = "done"
     /\ client.prevKey = CacheKey(task[1])
     /\ client.prevResult.kind = "payload"
     /\ ~client.prevHit
     /\ client.issued - client.prevIssued < _CACHE_TTL_SECONDS)
    => /\ task[1].result = client.prevResult
       /\ task[1].hit
       /\ task[1].fetches = 0

\* C8 witness: get_option_expiration_dates("AAPL") repeated some time after
\* its payload was returned, served from the cache
C8_Witness ==
    /\ task[1].pc = "done"
    /\ task[1].op = "get_option_expiration_dates"
    /\ client.prevKey = CacheKey(task[1])
    /\ client.prevResult.kind = "payload"
    /\ ~client.prevHit
    /\ client.issued > client.prevReturned
    /\ client.issued - client.prevIssued < _CACHE_TTL_SECONDS
    /\ task[1].hit

\* C9 as stated: get_financial_statement with a financial_type outside the
\* six valid values returns the invalid-type error string and makes no
\* upstream fetch attempt.
C9_InvalidTypeNoUpstream ==
    \A i \in Tasks :
        (/\ task[i].pc = "done"
         /\ task[i].op = "get_financial_statement"
         /\ task[i].args[1] \notin FinancialType)
        => /\ task[i].result.kind = "invalid"
           /\ task[i].fetches = 0

\* C10: one _execute_with_retry calls the fetcher at most _MAX_RETRIES + 1
\* times; one that returns after k transient failures has made exactly
\* k + 1 attempts and slept exactly k times, one sleep before each attempt
\* after the first.
C10_RetryBudget ==
    \A i \in Tasks :
        LET t == task[i]
        IN  /\ t.tries <= _MAX_RETRIES + 1
            /\ t.lastExec.tries <= _MAX_RETRIES + 1
            /\ t.pc = "fetch" => t.tries = t.attempt /\ t.sleeps = t.attempt
            /\ t.pc = "sleep" => t.tries = t.attempt + 1 /\ t.sleeps = t.tries
            /\ t.lastExec.outcome = "returned"
                 => /\ t.lastExec.fails <= _MAX_RETRIES
                    /\ t.lastExec.tries = t.lastExec.fails + 1
                    /\ t.lastExec.sleeps = t.lastExec.fails

\* C10 witness: a fetch that failed _MAX_RETRIES times with a transient
\* error and then succeeded
C10_Witness ==
    \E i \in Tasks :
        /\ task[i].lastExec.outcome = "returned"
        /\ task[i].lastExec.fails = _MAX_RETRIES
        /\ task[i].lastExec.tries = _MAX_RETRIES + 1
        /\ task[i].lastExec.sleeps = _MAX_RETRIES

\* C11: in _execute_with_retry a sleep, and so every attempt after the
\* first, follows only a transient failure with attempts left; an execute
\* that raised has raised its most recent failure, with no sleep after it,
\* and that failure is non-transient or the one of attempt _MAX_RETRIES.
C11_FailFast ==
    \A i \in Tasks :
        LET t == task[i]
        IN  /\ t.pc = "sleep"
                 => /\ _is_rate_limited_error(t.last_error)
                    /\ t.attempt < _MAX_RETRIES
            /\ (t.pc = "fetch" /\ t.attempt > 0)
                 => _is_rate_limited_error(t.last_error)
            /\ t.lastExec.outcome = "raised"
                 => /\ t.pc = "done"
                    /\ t.result = Str("error", t.last_error)
                    /\ t.lastExec.sleeps = t.lastExec.tries - 1
                    /\ t.lastExec.sleeps = t.lastExec.fails
                    /\ \/ ~_is_rate_limited_error(t.last_error)
                       \/ t.lastExec.tries = _MAX_RETRIES + 1

\* C11 witness: one call has raised the transient failure of its last
\* allowed attempt, another a non-transient failure of its second attempt
C11_Witness ==
    \E i, j \in Tasks :
        /\ task[i].lastExec.outcome = "raised"
        /\ _is_rate_limited_error(task[i].last_error)
        /\ task[i].lastExec.tries = _MAX_RETRIES + 1
        /\ task[i].lastExec.sleeps = _MAX_RETRIES
        /\ task[j].lastExec.outcome = "raised"
        /\ ~_is_rate_limited_error(task[j].last_error)
        /\ task[j].lastExec.tries = 2
        /\ task[j].lastExec.sleeps = 1

StepEnabled(j) ==
    CASE task[j].pc = "idle" ->
           (now < MaxTime /\ calls < MaxCalls)
             => ENABLED Call(j, "get_stock_info", "AAPL", <<>>)
      [] task[j].pc = "limit" -> ENABLED RateLimit(j)
      [] task[j].pc = "fetch" ->
           \E out \in Upstream(task[j].op, task[j].stage) : ENABLED Attempt(j, out)
      [] task[j].pc = "sleep" -> now >= task[j].wake_at => ENABLED Wake(j)
      [] task[j].pc = "done" -> ENABLED Finish(j)

\* C13: a call in its backoff sleep does not hold the event loop, and the
\* next step of every other call (entering a handler, its rate-limit check,
\* a fetch attempt, waking up, returning) can be taken while it sleeps.
C13_SleepDoesNotBlock ==
    \A i \in Tasks :
        task[i].pc = "sleep"
        => /\ running # i
           /\ \A j \in Tasks \ {i} : StepEnabled(j)

\* C13 witness: while one call is in a sleep that is not over, another
\* call has entered, passed the limiter, fetched twice and returned its
\* payload in one run
C13_Witness ==
    \E i, j \in Tasks :
        /\ i # j
        /\ task[i].pc = "sleep"
        /\ task[i].wake_at > now
        /\ task[j].pc = "done"
        /\ ~task[j].hit
        /\ task[j].fetches = 2
        /\ task[j].result.kind = "payload"

\* a call that passed the limiters has its time as the latest entry of the
\* global list and as the last time of its ticker
UsageRecorded ==
    \A i \in Tasks :
        task[i].checked = "passed"
        => /\ task[i].ticker \in DOMAIN last
           /\ g # <<>>
           /\ g[Len(g)] = last[task[i].ticker]
           /\ last[task[i].ticker] <= now

\* C16: from the moment a call has passed the limiters, so before its
\* first fetch, its time is recorded in the global list and as its ticker's
\* last time, and no later step of the call (a fetch attempt that returns,
\* fails or finds nothing, a sleep, the return of the result) changes the
\* global list or the per-ticker map.
C16_UsageKept ==
    /\ []UsageRecorded
    /\ [][(\E i \in Tasks : task[i].pc \in {"fetch", "sleep", "done"})
            => (g' = g /\ last' = last)]_vars

\* C16 witness: a call that passed the limiters has returned an error after
\* its retries were used up, with its usage still on record
C16_Witness ==
    \E i \in Tasks :
        /\ task[i].pc = "done"
        /\ task[i].checked = "passed"
        /\ task[i].result.kind = "error"
        /\ task[i].lastExec.tries = _MAX_RETRIES + 1
        /\ g # <<>>
        /\ g[Len(g)] = last[task[i].ticker]
        /\ last[task[i].ticker] < now

\* task i is between the entry of its handler and its next suspension
InRun(i) == task[i].pc \in {"limit", "fetch"}

\* the call of task i is accepted by the limiters in this step
Accepts(i) == task[i].checked = "no" /\ task'[i].checked = "passed"

\* C18: under every interleaving of two concurrent calls, the call that is
\* about to make its rate-limit check holds the event loop alone; a call is
\* accepted only at least _PER_TICKER_MIN_INTERVAL_SECONDS after the last
\* acceptance for its ticker and with the window below capacity, its time
\* is recorded in the step that accepts it, and the per-ticker map changes
\* in no other step; the global list never exceeds _GLOBAL_MAX_REQUESTS.
C18_CheckAndRecordAtomic ==
    /\ [](/\ Len(g) <= _GLOBAL_MAX_REQUESTS
          /\ \A i \in Tasks : InRun(i) => running = i
          /\ \A i, j \in Tasks : (InRun(i) /\ InRun(j)) => i = j)
    /\ [][/\ \A i \in Tasks :
               Accepts(i)
               => /\ (task[i].ticker \in DOMAIN last
                        => now - last[task[i].ticker]
                             >= _PER_TICKER_MIN_INTERVAL_SECONDS)
                  /\ Len(_prune_global_timestamps(g, now)) < _GLOBAL_MAX_REQUESTS
                  /\ last' = Put(last, task[i].ticker, now)
                  /\ g' = Append(_prune_global_timestamps(g, now), now)
          /\ last' # last => \E i \in Tasks : Accepts(i)]_vars

\* C18 witness: of two calls in flight for one ticker, one was accepted and
\* is in its backoff sleep, the other was rejected
C18_Witness ==
    \E i, j \in Tasks :
        /\ i # j
        /\ task[i].ticker = task[j].ticker
        /\ task[i].checked = "passed"
        /\ task[i].pc = "sleep"
        /\ task[j].checked = "limited"
        /\ task[j].pc = "done"

\* C19 as stated: while a call is executing its upstream fetch, the next
\* step of every other call can be taken.
C19_FetchInterleaves ==
    \A i \in Tasks :
        task[i].pc = "fetch"
        => \A j \in Tasks \ {i} : StepEnabled(j)

\* C22: every cache entry holds a payload; the step that ends a call in
\* anything else (rate-limit, not-found, error, invalid-argument or no-news
\* message, or no string at all) leaves the cache unchanged and the call's
\* key without an entry, and a call entered on a key without an entry goes
\* to the rate-limit check.
C22_OnlyPayloadsCached ==
    /\ [](/\ \A k \in DOMAIN cache : cache[k].value.kind = "payload"
          /\ \A i \in Tasks :
                (task[i].pc = "done" /\ task[i].result.kind # "payload")
                => CacheKey(task[i]) \notin DOMAIN cache)
    /\ [][\A i \in Tasks :
            /\ (/\ task[i].pc # "done"
                /\ task'[i].pc = "done"
                /\ task'[i].result.kind # "payload")
               => cache' = cache
            /\ (/\ task[i].pc = "idle"
                /\ task'[i].pc # "idle"
                /\ CacheKey(task'[i]) \notin DOMAIN cache)
               => task'[i].pc = "limit"]_vars

\* C22 witness: with a payload in the cache, a news call has ended in the
\* no-news message and left no entry for its key
C22_Witness ==
    \E i \in Tasks :
        /\ task[i].pc = "done"
        /\ task[i].result.kind = "no_news"
        /\ CacheKey(task[i]) \notin DOMAIN cache
        /\ DOMAIN cache # {}

\* the number of retry-wrapped fetch steps of a handler
FetchSteps(op) ==
    IF op = "get_option_chain" THEN 3
    ELSE IF op = "get_stock_actions" THEN 1
    ELSE 2

\* the fetch attempts made so far by the calls the limiters accepted at a
\* time in [w, w + _GLOBAL_WINDOW_SECONDS]: the returned ones and the ones
\* in flight
InBudgetWindow(t, w) == w <= t /\ t <= w + _GLOBAL_WINDOW_SECONDS

AttemptsOfWindow(w) ==
    Sum([k \in DOMAIN client.spent |->
            IF InBudgetWindow(client.spent[k].t, w)
            THEN client.spent[k].fetches ELSE 0])
    + Sum([i \in Tasks |->
            IF task[i].checked = "passed" /\ InBudgetWindow(client.began[i], w)
            THEN task[i].fetches ELSE 0])

C26_CallsTerminate ==
    /\ [](\A i \in Tasks :
             /\ task[i].tries <= _MAX_RETRIES + 1
             /\ task[i].sleeps <= _MAX_RETRIES
             /\ task[i].fetches <= FetchSteps(task[i].op) * (_MAX_RETRIES + 1))
    /\ \A i \in Tasks :
          (task[i].pc \in {"limit", "fetch", "sleep"}) ~> (task[i].pc = "done")

\* C26 witness: a call has returned after using every retry of an execute
\* while the call of the other task is asleep in its own backoff
C26_Witness ==
    \E i, j \in Tasks :
        /\ i # j
        /\ task[i].pc = "done"
        /\ task[i].lastExec.sleeps = _MAX_RETRIES
        /\ task[j].pc = "sleep"

(* ----------------------------------------------------------------------- *)
(* SpecCache: _cache_set and _cache_get called directly, under a moving    *)
(* clock.                                                                  *)
(* ----------------------------------------------------------------------- *)
CacheTick ==
    /\ now < CacheMaxTime
    /\ now' = now + 1
    /\ UNCHANGED <<g, last, cache, task, running, log, lastSet, client, probe, calls>>

CacheSet(cache_key, value) ==
    /\ cache' = _cache_set(cache_key, value, now, cache)
    /\ lastSet' = Put(lastSet, cache_key, [t |-> now, value |-> value])
    /\ probe' = [op |-> "set", key |-> cache_key, t |-> now, value |-> value,
                 had |-> cache_key \in DOMAIN cache]
    /\ UNCHANGED <<now, g, last, task, running, log, client, calls>>

CacheGet(cache_key) ==
    /\ LET r == _cache_get(cache_key, now, cache)
       IN  /\ cache' = r.cache
           /\ probe' = [op |-> "get", key |-> cache_key, t |-> now,
                        value |-> r.value, had |-> cache_key \in DOMAIN cache]
    /\ UNCHANGED <<now, g, last, task, running, log, lastSet, client, calls>>

CacheNext ==
    \/ CacheTick
    \/ \E k \in CacheKeys : \E v \in Payloads : CacheSet(k, Str("payload", v))
    \/ \E k \in CacheKeys : CacheGet(k)

SpecCache == Init /\ [][CacheNext]_vars

\* C4: _cache_get(k) at time now returns the value of the most recent
\* _cache_set(k, v), made at time t, exactly when now < t + _CACHE_TTL_SECONDS;
\* otherwise it returns None and leaves no entry for k in the map.
C4_CacheTtl ==
    probe.op = "get" =>
        LET k == probe.key
        IN  IF k \in DOMAIN lastSet
               /\ probe.t < lastSet[k].t + _CACHE_TTL_SECONDS
            THEN probe.value = lastSet[k].value
            ELSE probe.value = None /\ k \notin DOMAIN cache

\* C4 witness: a lookup exactly _CACHE_TTL_SECONDS after the set finds the
\* expired entry, reports None and removes it
C4_Witness ==
    /\ probe.op = "get"
    /\ probe.had
    /\ probe.key \in DOMAIN lastSet
    /\ probe.t = lastSet[probe.key].t + _CACHE_TTL_SECONDS
    /\ probe.value = None
    /\ probe.key \notin DOMAIN cache

(* ----------------------------------------------------------------------- *)
(* Limiter properties, stated over the history of checks.                  *)
(* ----------------------------------------------------------------------- *)
\* the accepted checks among the first n with acceptance time in [lo, hi]
AcceptedIn(n, lo, hi) ==
    {i \in 1..n : ~log[i].limited /\ lo <= log[i].t /\ log[i].t <= hi}

DistinctKeys(n) ==
    \A i, j \in 1..n : i # j => log[i].ticker # log[j].ticker

\* C1: in every reachable state, every trailing window of length
\* _GLOBAL_WINDOW_SECONDS holds at most _GLOBAL_MAX_REQUESTS accepted calls,
\* and the global timestamp list never holds more than that many entries.
C1_GlobalWindowBound ==
    /\ Len(g) <= _GLOBAL_MAX_REQUESTS
    /\ \A e \in 0..now :
          Cardinality(AcceptedIn(Len(log), e - _GLOBAL_WINDOW_SECONDS, e))
              <= _GLOBAL_MAX_REQUESTS

\* C1 witness: the window is full and a call was turned away by it
C1_Witness ==
    /\ Len(g) = _GLOBAL_MAX_REQUESTS
    /\ \E i \in DOMAIN log : log[i].by = "global"

\* C2 as stated: from a fresh limiter, for calls on distinct keys all issued
\* within one window of the first, the first _GLOBAL_MAX_REQUESTS are not
\* rejected, and the next one is rejected by the global limiter with a
\* reported wait strictly greater than 0.
C2_Original ==
    \A n \in DOMAIN log :
        (DistinctKeys(n) /\ log[n].t - log[1].t <= _GLOBAL_WINDOW_SECONDS) =>
            /\ (n <= _GLOBAL_MAX_REQUESTS => ~log[n].limited)
            /\ (n = _GLOBAL_MAX_REQUESTS + 1 =>
                    log[n].by = "global" /\ log[n].msg.retry > 0)

\* C2 amended: as C2, but the reported wait of the rejected call is only
\* >= 0: it is strictly positive exactly when the call is issued less than
\* a full window after the first call, and 0 when exactly one window after.
C2_Amended ==
    \A n \in DOMAIN log :
        (DistinctKeys(n) /\ log[n].t - log[1].t <= _GLOBAL_WINDOW_SECONDS) =>
            /\ (n <= _GLOBAL_MAX_REQUESTS => ~log[n].limited)
            /\ (n = _GLOBAL_MAX_REQUESTS + 1 =>
                    /\ log[n].by = "global"
                    /\ log[n].msg.retry >= 0
                    /\ (log[n].msg.retry > 0
                          <=> log[n].t - log[1].t < _GLOBAL_WINDOW_SECONDS))

\* C2 witness: the call after the window filled, exactly one window after
\* the first, rejected with a reported wait of 0
C2_Witness ==
    /\ Len(log) = _GLOBAL_MAX_REQUESTS + 1
    /\ DistinctKeys(Len(log))
    /\ log[Len(log)].t - log[1].t = _GLOBAL_WINDOW_SECONDS
    /\ log[Len(log)].by = "global"
    /\ log[Len(log)].msg.retry = 0

\* the latest accepted check for the key of check n, before check n
PriorAccepted(n) ==
    {i \in 1..(n - 1) : ~log[i].limited /\ log[i].ticker = log[n].ticker}

Latest(S) == CHOOSE i \in S : \A j \in S : j <= i

\* C3: with the global window below capacity, a call for key k arriving
\* t1 - t0 after the key's last accepted call is rejected with
\* retry_after = _PER_TICKER_MIN_INTERVAL_SECONDS - (t1 - t0) when
\* t1 - t0 < _PER_TICKER_MIN_INTERVAL_SECONDS, and otherwise accepted with
\* t1 recorded as the key's last timestamp.
C3_PerKeyThrottle ==
    \A n \in DOMAIN log :
        LET e == log[n]
            below == Cardinality(AcceptedIn(n - 1,
                         e.t - _GLOBAL_WINDOW_SECONDS, e.t))
                     < _GLOBAL_MAX_REQUESTS
        IN  (PriorAccepted(n) # {} /\ below) =>
            LET elapsed == e.t - log[Latest(PriorAccepted(n))].t
            IN  IF elapsed < _PER_TICKER_MIN_INTERVAL_SECONDS
                THEN /\ e.limited
                     /\ e.by = "ticker"
                     /\ e.retry_after = _PER_TICKER_MIN_INTERVAL_SECONDS - elapsed
                     /\ e.msg = RateLimitedMessage(
                                    _PER_TICKER_MIN_INTERVAL_SECONDS - elapsed)
                ELSE /\ ~e.limited
                     /\ (n = Len(log) => last[e.ticker] = e.t)

\* C3 witness: a second call for a key one second after its accepted call,
\* rejected by the throttle, and a later one accepted
C3_Witness ==
    \E i, j \in DOMAIN log :
        /\ i < j
        /\ log[i].ticker = log[j].ticker
        /\ log[i].by = "ticker" /\ log[i].retry_after = 1
        /\ ~log[j].limited
        /\ PriorAccepted(i) # {}

TimesOf(checks) == [k \in 1..Len(checks) |-> checks[k].t]

\* the start of the window of the latest check
LastCutoff == log[Len(log)].t - _GLOBAL_WINDOW_SECONDS

\* C14 as stated: every check that passed the global comparison, accepted
\* or then rejected by the per-ticker throttle, has its time in the global
\* list while it is in the window of the latest check.
C14_Original ==
    log # <<>> =>
        g = TimesOf(SelectSeq(log,
                LAMBDA e : e.by # "global" /\ e.t >= LastCutoff))

\* C14 amended: the global list holds the times of exactly the accepted
\* checks in the window of the latest check; a check that passed the global
\* comparison and was rejected by the per-ticker throttle has no entry.
C14_Amended ==
    IF log = <<>> THEN g = <<>>
    ELSE g = TimesOf(SelectSeq(log,
                 LAMBDA e : ~e.limited /\ e.t >= LastCutoff))

\* C14 witness: after a rejection by the per-ticker throttle, a call is
\* accepted that the window would have turned away had the rejected call
\* taken a slot
C14_Witness ==
    \E n, m \in DOMAIN log :
        /\ n < m
        /\ log[n].by = "ticker"
        /\ ~log[m].limited
        /\ Cardinality({i \in 1..(m - 1) :
               /\ log[i].by # "global"
               /\ log[i].t >= log[m].t - _GLOBAL_WINDOW_SECONDS})
             >= _GLOBAL_MAX_REQUESTS

\* the accepted checks before check n that are in the window of check n
InWindow(n) ==
    AcceptedIn(n - 1, log[n].t - _GLOBAL_WINDOW_SECONDS, log[n].t)

\* the time of the oldest of them
Oldest(n) ==
    log[CHOOSE i \in InWindow(n) : \A j \in InWindow(n) : i <= j].t

GlobalFull(n) == Cardinality(InWindow(n)) >= _GLOBAL_MAX_REQUESTS

TickerTooSoon(n) ==
    /\ PriorAccepted(n) # {}
    /\ log[n].t - log[Latest(PriorAccepted(n))].t < _PER_TICKER_MIN_INTERVAL_SECONDS

AcceptedFor(k) == {i \in DOMAIN log : ~log[i].limited /\ log[i].ticker = k}

\* C15: a check that both the full global window and the per-ticker
\* throttle would reject is rejected by the global limiter, with the global
\* wait estimate; and the per-ticker map depends on the accepted checks
\* only (its keys are the accepted tickers, each with the time of its latest
\* accepted check), so that a check rejected by the global limiter leaves
\* it unchanged.
C15_GlobalFirst ==
    /\ \A n \in DOMAIN log :
          /\ (GlobalFull(n) /\ TickerTooSoon(n))
                => /\ log[n].by = "global"
                   /\ log[n].retry_after =
                         _GLOBAL_WINDOW_SECONDS - (log[n].t - Oldest(n))
                   /\ log[n].msg = RateLimitedMessage(log[n].retry_after)
          /\ log[n].by = "global" => GlobalFull(n)
    /\ DOMAIN last = {k \in LimiterKeys : AcceptedFor(k) # {}}
    /\ \A k \in DOMAIN last : last[k] = log[Latest(AcceptedFor(k))].t

\* C15 witness: a check rejected by the global limiter that the per-ticker
\* throttle would have rejected too, with a different wait estimate
C15_Witness ==
    \E n \in DOMAIN log :
        /\ log[n].by = "global"
        /\ TickerTooSoon(n)
        /\ log[n].retry_after #
              _PER_TICKER_MIN_INTERVAL_SECONDS
                - (log[n].t - log[Latest(PriorAccepted(n))].t)
        /\ n = Len(log)
        /\ last[log[n].ticker] < log[n].t

\* checks 1..3 were made at times 0, 1, 2 on distinct keys
ThreeCallsScenario ==
    /\ Len(log) >= 3
    /\ log[1].t = 0 /\ log[2].t = 1 /\ log[3].t = 2
    /\ DistinctKeys(3)

\* C17: every rejection by the global limiter at time now reports
\* _GLOBAL_WINDOW_SECONDS - (now - oldest), oldest being the oldest accepted
\* time still in the window; in particular, with _GLOBAL_MAX_REQUESTS = 2,
\* calls at 0, 1, 2 on distinct keys are accepted, accepted and rejected
\* with _GLOBAL_WINDOW_SECONDS - 2 (58 for a window of 60).
C17_GlobalRetryAfter ==
    /\ \A n \in DOMAIN log :
          log[n].by = "global"
          => /\ InWindow(n) # {}
             /\ log[n].retry_after =
                   _GLOBAL_WINDOW_SECONDS - (log[n].t - Oldest(n))
             /\ log[n].msg.kind = "rate_limited"
             /\ log[n].msg.retry = 10 * log[n].retry_after
    /\ ThreeCallsScenario
          => /\ ~log[1].limited
             /\ ~log[2].limited
             /\ log[3].by = "global"
             /\ log[3].retry_after = _GLOBAL_WINDOW_SECONDS - 2

\* C17 witness: the calls at 0, 1, 2 on distinct keys, the third rejected
C17_Witness ==
    /\ ThreeCallsScenario
    /\ Len(log) = 3
    /\ log[3].by = "global"
    /\ log[3].retry_after = _GLOBAL_WINDOW_SECONDS - 2
    /\ g = <<0, 1>>

NonDecreasing(ts) == \A a, b \in DOMAIN ts : a <= b => ts[a] <= ts[b]

\* C20: a step that makes a check at time now leaves a non-decreasing
\* global list with every entry in [now - _GLOBAL_WINDOW_SECONDS, now],
\* beginning with every entry of the old list that is in that interval;
\* every other step leaves the list as it is.
C20_PrunedOnCheck ==
    [][IF log' # log
       THEN /\ \A k \in DOMAIN g' :
                 now - _GLOBAL_WINDOW_SECONDS <= g'[k] /\ g'[k] <= now
            /\ NonDecreasing(g')
            /\ LET kept == SelectSeq(g,
                               LAMBDA e : e >= now - _GLOBAL_WINDOW_SECONDS)
               IN  /\ Len(g') >= Len(kept)
                   /\ SubSeq(g', 1, Len(kept)) = kept
       ELSE g' = g]_vars

\* C20 witness: a check has just dropped two entries older than the window
\* and recorded its own time
C20_Witness ==
    /\ log # <<>>
    /\ log[Len(log)].t = now
    /\ ~log[Len(log)].limited
    /\ g = <<now>>
    /\ Cardinality({i \in DOMAIN log :
           ~log[i].limited /\ log[i].t < now - _GLOBAL_WINDOW_SECONDS}) >= 2

\* check n was rejected by the global limiter and no check after it and
\* before check m was accepted
RejectedThenQuiet(n, m) ==
    /\ n < m
    /\ log[n].by = "global"
    /\ \A i \in (n + 1)..(m - 1) : log[i].limited

\* C23 as stated: after a rejection by the global limiter at time t with
\* wait estimate r and no acceptance since, a call made at t + r for a key
\* that is not throttled is accepted.
C23_Original ==
    \A n, m \in DOMAIN log :
        (/\ RejectedThenQuiet(n, m)
         /\ log[m].t = log[n].t + log[n].retry_after
         /\ ~TickerTooSoon(m))
        => ~log[m].limited

\* C23 amended: after such a rejection, a call made later than t + r is not
\* rejected by the global limiter (and is accepted when its key is not
\* throttled); a call made at t + r or before is rejected by the global
\* limiter again.
C23_Amended ==
    \A n, m \in DOMAIN log :
        RejectedThenQuiet(n, m)
        => IF log[m].t > log[n].t + log[n].retry_after
           THEN /\ log[m].by # "global"
                /\ ~TickerTooSoon(m) => ~log[m].limited
           ELSE log[m].by = "global"

\* C23 witness: a call rejected by the global limiter with a positive
\* estimate r at time t, and the next call, one second after t + r, accepted
C23_Witness ==
    \E n, m \in DOMAIN log :
        /\ RejectedThenQuiet(n, m)
        /\ log[n].retry_after > 0
        /\ log[m].t = log[n].t + log[n].retry_after + 1
        /\ ~log[m].limited

\* the rejected checks for the key of check m made after check n
RejectedBetween(n, m) ==
    {i \in (n + 1)..(m - 1) : log[i].limited /\ log[i].ticker = log[m].ticker}

\* C24: a rejected check leaves the per-ticker map unchanged and appends
\* nothing to the global list (it only drops expired entries from its
\* front); so a check for key k made _PER_TICKER_MIN_INTERVAL_SECONDS or
\* more after the key's latest accepted check is not rejected by the
\* per-ticker throttle, however many checks for k were rejected in between.
C24_RejectionKeepsState ==
    /\ [](\A m \in DOMAIN log : ~TickerTooSoon(m) => log[m].by # "ticker")
    /\ [][(/\ log' # log
           /\ log'[Len(log')].limited)
          => /\ last' = last
             /\ \E k \in 0..Len(g) : g' = SubSeq(g, k + 1, Len(g))]_vars

\* C24 witness: a key accepted at t0, rejected twice by the per-ticker
\* throttle afterwards, and accepted again at t0 + the interval
C24_Witness ==
    \E m \in DOMAIN log :
        /\ ~log[m].limited
        /\ PriorAccepted(m) # {}
        /\ log[m].t = log[Latest(PriorAccepted(m))].t + _PER_TICKER_MIN_INTERVAL_SECONDS
        /\ Cardinality({i \in RejectedBetween(Latest(PriorAccepted(m)), m) :
                            log[i].by = "ticker"}) >= 2

====
